---- MODULE Spec2Model ----
(***************************************************************************)
(* Listen mode of the meeting assistant: the renderer's turn segmenter     *)
(* (QueueCommands: startListening, recorder chunks, silence detection,     *)
(* fallback and restart timers, processCurrentAudio, stopListening) and    *)
(* the main process's conversation pipeline (ProcessingHelper.             *)
(* processConversationalAudio, DeepgramHelper, LLMHelper.                  *)
(* respondToTextWithHistory, clearListenConversation).                     *)
(*                                                                         *)
(* Both processes are single-threaded event loops: one action is one task  *)
(* (a handler run up to its next await).  IPC from the renderer is         *)
(* delivered in order and its handlers start synchronously, so a send and  *)
(* the start of its handler are one step.                                  *)
(***************************************************************************)
EXTENDS Integers, Sequences, FiniteSets, TLC

VARIABLES
    \* ---- main process (ProcessingHelper) ----
    listenConversationHistory,  \* this.listenConversationHistory
    calls,          \* the processCurrentAudio / processConversationalAudio chains in flight
    nextCall,       \* number of chains started so far (a chain's id is its utterance)
    failed,         \* utterances whose processConversationalAudio threw
    faulty,         \* chains that may meet a non-success outcome of an external service
    irregular,      \* how much of the exploration budget (MaxIrregular, MaxCarried) is spent
    appended,       \* every entry pushed since the history was last cleared, in order
    \* ---- renderer (QueueCommands): session ----
    isListening,    \* isListening / isListeningRef.current
    session,        \* number of startListening calls so far
    starts,         \* startListening calls suspended at an await, by session
    stopsAwaiting,  \* stopListening calls suspended at await switchAudioMode('normal')
    hasSystemAudio, \* hasSystemAudio
    \* ---- renderer: streams, audio graph, recorder ----
    micLive,        \* microphone streams with live tracks, by acquiring session
    sysLive,        \* loopback / screen-capture streams with live tracks
    mixLive,        \* mixing AudioContexts that are open
    audioStream,    \* audioStream.current
    mixer,          \* mixingContext / destinationStream / mixerGainNode .current
    systemStream,   \* systemStream.current
    mediaRecorder,  \* mediaRecorder.current
    recRunning,     \* MediaRecorders in state 'recording'
    finalChunk,     \* stopped MediaRecorders whose last dataavailable event is pending
    tape,           \* per MediaRecorder, the chunks array of its ondataavailable closure
    \* ---- renderer: timers ----
    restartPending, \* restart timeouts that are pending
    restartRef,     \* restartTimer.current is one of them
    volumeCheck,    \* volumeCheckInterval.current is running
    speechTimer,    \* speechProcessingTimer.current is pending
    \* ---- renderer: voice activity ----
    isSpeaking,     \* isSpeaking.current
    silence,        \* Date.now() - silenceStartTime.current, as a range
    recAge,         \* Date.now() - recordingStartTime.current, as a range
    \* ---- renderer: turns ----
    isProcessing,   \* isProcessing.current
    isAiThinking,   \* isAiThinking / isAiThinkingRef.current
    recordedBlob,   \* recordedBlob.current
    lastTurnSession, \* session of the latest processCurrentAudio that started a chain
    \* ---- renderer: what the user sees and selects ----
    audioAnalysisResult, \* audioAnalysisResult: the turn whose reply is the current answer
    conversationHistory, \* conversationHistory: the turns whose replies are displayed
    aiMode,         \* aiMode
    alerted,        \* sessions whose startListening showed its failure alert
    \* ---- main process: screenshot chat (ProcessingHelper) ----
    currentScreenshotPath, \* this.currentScreenshotPath (0: null)
    chatHistory,    \* this.conversationHistory
    asks,           \* askQuestionAboutCurrentScreenshot calls: id -> record
    nextAsk,        \* askQuestionAboutCurrentScreenshot calls made so far
    \* ---- main process: the two retry loops of LLMHelper side by side ----
    outcomes,       \* how the n-th generateContent call of either loop ends
    analyzeRun,     \* analyzeAudioFromBase64: its loop so far
    respondRun      \* respondToTextWithHistory: its loop so far

mainVars == <<listenConversationHistory, calls, nextCall, failed, faulty, irregular,
              appended>>
sessVars == <<isListening, session, starts, stopsAwaiting, hasSystemAudio>>
resVars == <<micLive, sysLive, mixLive, audioStream, mixer, systemStream, mediaRecorder,
             recRunning, finalChunk>>
timerVars == <<restartPending, restartRef, volumeCheck, speechTimer>>
vadVars == <<isSpeaking, silence, recAge>>
turnVars == <<isProcessing, isAiThinking, recordedBlob, lastTurnSession>>
uiVars == <<audioAnalysisResult, conversationHistory, aiMode, alerted>>
rendVars == <<sessVars, resVars, tape, timerVars, vadVars, turnVars, uiVars>>
chatVars == <<currentScreenshotPath, chatHistory, asks, nextAsk>>
retryVars == <<outcomes, analyzeRun, respondRun>>
vars == <<mainVars, rendVars, chatVars, retryVars>>

\* ---- bounds of the model ----
MaxPipeCalls == 2       \* process calls the caller makes in SpecPipe
MaxCapCalls == 13       \* process calls the caller makes in SpecCap
MaxIrregular == 1       \* SpecCap: calls that may meet a failing service, plus calls overlapped
MaxSessions == 2        \* startListening calls in Spec
MaxTurns == 2           \* chains processCurrentAudio starts in Spec
MaxCarried == 1         \* Spec: pending completions carried across a start or stop click
MaxChunks == 2          \* dataavailable events with data
MaxStreamChunks == 3    \* the same in SpecStream
MaxMonitor == 1         \* sessions, chunks and turns in SpecMonitor
MaxStops == 2           \* stopListening calls awaiting at once in SpecStop
MaxAsks == 2            \* askQuestionAboutCurrentScreenshot calls in SpecChat
MaxShots == 1           \* screenshot paths in SpecChat
MaxChatCalls == 1       \* process calls the caller makes in SpecChat

\* ---- program constants ----
HistoryCap == 24        \* listenConversationHistory.slice(-24)
ContextLen == 6         \* conversationHistory.slice(-6)
maxRetries == 3
BackoffBase == 1000     \* Math.pow(2, retryCount) * 1000

\* ------------------------------------------------------------------------
\* Pure helpers

\* Array.prototype.slice(-n)
LastN(s, n) == IF Len(s) <= n THEN s ELSE SubSeq(s, Len(s) - n + 1, Len(s))

RECURSIVE Pow2(_)
Pow2(n) == IF n = 0 THEN 1 ELSE 2 * Pow2(n - 1)

\* variant: a delay that grows linearly, retryCount * 1000
BackoffDelay_Linear(retryCount) == retryCount * BackoffBase

\* Math.pow(2, retryCount) * 1000
BackoffDelay(retryCount) == Pow2(retryCount) * BackoffBase

\* Transcripts are strings over a blank and a letter.
RawTranscripts == {<<>>, <<" ">>, <<"a">>, <<" ", "a">>}

RECURSIVE TrimLeft(_)
TrimLeft(s) == IF s # <<>> /\ Head(s) = " " THEN TrimLeft(Tail(s)) ELSE s

RECURSIVE TrimRight(_)
TrimRight(s) == IF s # <<>> /\ s[Len(s)] = " "
                THEN TrimRight(SubSeq(s, 1, Len(s) - 1)) ELSE s

\* String.prototype.trim()
Trim(s) == TrimRight(TrimLeft(s))

\* DeepgramHelper.transcribeAudioFromBase64 on a successful API result
DeepgramText(raw) == IF Trim(raw) = <<>> THEN <<>> ELSE raw

\* variant: no guard on the transcript
IsEmptyTranscription_Off(transcribedText) == FALSE

\* the guard of processConversationalAudio: !transcribedText.trim()
IsEmptyTranscription(transcribedText) == Trim(transcribedText) = <<>>

\* the two entries a completed turn pushes, named by the utterance and the
\* session they come from
TurnEntries(c, s) == << [role |-> "user", utt |-> c, sess |-> s],
                        [role |-> "assistant", utt |-> c, sess |-> s] >>

\* variant: slice(-23), an odd number of entries
CapHistory_Odd(h) == IF Len(h) > HistoryCap THEN LastN(h, HistoryCap - 1) ELSE h

\* variant: the history is never cut
CapHistory_Off(h) == h

\* variant: slice(0, 24), which keeps the oldest entries
CapHistory_Oldest(h) == IF Len(h) > HistoryCap THEN SubSeq(h, 1, HistoryCap) ELSE h

\* if (length > 24) this.listenConversationHistory = slice(-24)
CapHistory(h) == IF Len(h) > HistoryCap THEN LastN(h, HistoryCap) ELSE h

\* recordedBlob.current === null
NoBlob == [s |-> 0, lo |-> 0, hi |-> 0]

\* variant: one more retry is allowed
ShouldRetry_Inclusive(retryCount, errKind) == retryCount <= maxRetries + 1

\* the test of respondToTextWithHistory's catch block: if (retryCount <= maxRetries)
ShouldRetry(retryCount, errKind) == retryCount <= maxRetries

\* ------------------------------------------------------------------------
\* Chains

NewCall(s, p) ==
    [pc |-> p, session |-> s, first |-> FALSE, heard |-> "none",
     retryCount |-> 0, attempts |-> 0,
     lastErr |-> "none", allRate |-> TRUE, waits |-> <<>>,
     aliased |-> FALSE, snap |-> <<>>, ctxSess |-> {},
     utt |-> NoBlob, prev |-> 0, cause |-> "ipc", energy |-> 0,
     selected |-> "meeting", mode |-> "none"]

\* the array a chain's conversationHistory parameter refers to
ParamHistory(c) == IF calls[c].aliased THEN listenConversationHistory ELSE calls[c].snap

\* this.listenConversationHistory is assigned a new array: chains that hold the
\* old array as their conversationHistory parameter keep the old one, `old`.
\* Nothing pushes to the old array any more and it is only read through
\* slice(-6), so its last ContextLen entries are all that is kept of it.
Detach(cs, old) ==
    [c \in DOMAIN cs |->
        IF cs[c].aliased
        THEN [cs[c] EXCEPT !.aliased = FALSE, !.snap = LastN(old, ContextLen)]
        ELSE cs[c]]

\* the sessions whose turns appear in a context
SessionsOf(ctx) == {ctx[i].sess : i \in 1..Len(ctx)}

\* respondToTextWithHistory(transcribedText, conversationHistory = [], mode = 'meeting'):
\* the handler of analyze-audio-conversational takes (event, data, mimeType) and
\* processConversationalAudio passes two arguments, so mode is the default
DefaultMode == "meeting"

\* one loop iteration of respondToTextWithHistory up to `await generateContent`:
\* the context is built from the parameter and the model is called
IssueAttempt(r, param) ==
    [r EXCEPT !.pc = "responding", !.attempts = @ + 1,
              !.ctxSess = SessionsOf(LastN(param, ContextLen)),
              !.mode = DefaultMode]

\* ------------------------------------------------------------------------
\* Main process

\* variant: the user entry is pushed on entry, before the services are called
\* (as askQuestionAboutCurrentScreenshot does with its chat history)
BeginProcess_PushFirst(c, r, mayFail) ==
    LET entry == [role |-> "user", utt |-> c, sess |-> r.session] IN
    /\ calls' = (c :> [r EXCEPT !.pc = "transcribing"]) @@ calls
    /\ faulty' = IF mayFail THEN faulty \cup {c} ELSE faulty
    /\ listenConversationHistory' = Append(listenConversationHistory, entry)
    /\ appended' = Append(appended, entry)
    /\ UNCHANGED failed

\* processConversationalAudio is entered and awaits the transcriber
BeginProcess(c, r, mayFail) ==
    /\ calls' = (c :> [r EXCEPT !.pc = "transcribing"]) @@ calls
    /\ faulty' = IF mayFail THEN faulty \cup {c} ELSE faulty
    /\ UNCHANGED <<listenConversationHistory, failed, appended>>

\* await transcribeAudioFromBase64 settles
TranscribeDone(c) ==
    /\ c \in DOMAIN calls
    /\ calls[c].pc = "transcribing"
    /\ \/ \* the API reports an error: transcribeAudioFromBase64 throws
          /\ c \in faulty
          /\ calls' = [calls EXCEPT ![c].pc = "replyErr"]
          /\ failed' = failed \cup {c}
       \/ \* the API answers with a transcript; a blank one counts as a
          \* non-success outcome of the service
          \E raw \in RawTranscripts :
            LET transcribedText == DeepgramText(raw)
                r == [calls[c] EXCEPT !.heard = IF Trim(raw) = <<>> THEN "blank"
                                                ELSE "words"]
            IN
            /\ Trim(raw) = <<>> => c \in faulty
            /\ UNCHANGED failed
            /\ IF IsEmptyTranscription(transcribedText)
               THEN calls' = [calls EXCEPT ![c] = [r EXCEPT !.pc = "replyEmpty"]]
               ELSE calls' = [calls EXCEPT ![c] =
                        IssueAttempt([r EXCEPT !.aliased = TRUE],
                                     listenConversationHistory)]
    /\ UNCHANGED <<listenConversationHistory, appended, nextCall, faulty, irregular>>
    /\ UNCHANGED rendVars
    /\ UNCHANGED chatVars
    /\ UNCHANGED retryVars

\* await generateContent resolves: push the turn, cap the history, return
RespondOk(c) ==
    /\ c \in DOMAIN calls
    /\ calls[c].pc = "responding"
    /\ LET pushed == listenConversationHistory \o TurnEntries(c, calls[c].session)
           done   == [calls EXCEPT ![c].pc = "replyOk", ![c].aliased = FALSE,
                                   ![c].snap = <<>>]
       IN /\ listenConversationHistory' = CapHistory(pushed)
          /\ calls' = IF CapHistory(pushed) # pushed THEN Detach(done, pushed) ELSE done
          /\ appended' = appended \o TurnEntries(c, calls[c].session)
    /\ UNCHANGED <<nextCall, failed, faulty, irregular>>
    /\ UNCHANGED rendVars
    /\ UNCHANGED chatVars
    /\ UNCHANGED retryVars

\* await generateContent rejects with a rate-limit-shaped or another error
RespondError(c) ==
    /\ c \in DOMAIN calls
    /\ calls[c].pc = "responding"
    /\ c \in faulty
    /\ \E errKind \in {"rate", "other"} :
         LET rc == calls[c].retryCount + 1
             r  == [calls[c] EXCEPT !.retryCount = rc, !.lastErr = errKind,
                                    !.allRate = @ /\ errKind = "rate"]
         IN IF ShouldRetry(rc, errKind)
            THEN /\ calls' = [calls EXCEPT ![c] =
                        [r EXCEPT !.pc = "backoff",
                                  !.waits = Append(@, BackoffDelay(rc))]]
                 /\ UNCHANGED failed
            ELSE /\ calls' = [calls EXCEPT ![c] =
                        [r EXCEPT !.pc = "replyErr", !.aliased = FALSE, !.snap = <<>>]]
                 /\ failed' = failed \cup {c}
    /\ UNCHANGED <<listenConversationHistory, appended, nextCall, faulty, irregular>>
    /\ UNCHANGED rendVars
    /\ UNCHANGED chatVars
    /\ UNCHANGED retryVars

\* the backoff setTimeout fires: next loop iteration
BackoffDone(c) ==
    /\ c \in DOMAIN calls
    /\ calls[c].pc = "backoff"
    /\ calls' = [calls EXCEPT ![c] = IssueAttempt(@, ParamHistory(c))]
    /\ UNCHANGED <<listenConversationHistory, appended, nextCall, failed, faulty, irregular>>
    /\ UNCHANGED rendVars
    /\ UNCHANGED chatVars
    /\ UNCHANGED retryVars

\* ProcessingHelper.clearListenConversation
ClearListen ==
    /\ listenConversationHistory' = <<>>
    /\ appended' = <<>>
    /\ calls' = Detach(calls, listenConversationHistory)

\* ------------------------------------------------------------------------
\* The pipeline driven directly through its IPC interface

\* a few calls of ipcMain.handle("analyze-audio-conversational"); any of them
\* may overlap others and meet failing services
Invoke ==
    /\ nextCall < MaxPipeCalls
    /\ nextCall' = nextCall + 1
    /\ BeginProcess(nextCall + 1, NewCall(0, "transcribing"), TRUE)
    /\ UNCHANGED irregular
    /\ UNCHANGED rendVars
    /\ UNCHANGED chatVars
    /\ UNCHANGED retryVars

\* many calls; few of them overlap another or meet failing services
InvokeCap ==
    /\ nextCall < MaxCapCalls
    /\ nextCall' = nextCall + 1
    /\ \E mayFail \in BOOLEAN :
         LET cost == (IF mayFail THEN 1 ELSE 0) + Cardinality(DOMAIN calls) IN
         /\ irregular + cost <= MaxIrregular
         /\ irregular' = irregular + cost
         /\ BeginProcess(nextCall + 1, NewCall(0, "transcribing"), mayFail)
    /\ UNCHANGED rendVars
    /\ UNCHANGED chatVars
    /\ UNCHANGED retryVars

\* ipcMain.handle("clear-listen-conversation")
InvokeClear ==
    /\ ClearListen
    /\ UNCHANGED <<nextCall, failed, faulty, irregular>>
    /\ UNCHANGED rendVars
    /\ UNCHANGED chatVars
    /\ UNCHANGED retryVars

\* the handler's promise settles at the caller
Receive(c) ==
    /\ c \in DOMAIN calls
    /\ calls[c].pc \in {"replyOk", "replyEmpty", "replyErr"}
    /\ calls' = [d \in DOMAIN calls \ {c} |-> calls[d]]
    /\ UNCHANGED <<listenConversationHistory, appended, nextCall, failed, faulty, irregular>>
    /\ UNCHANGED rendVars
    /\ UNCHANGED chatVars
    /\ UNCHANGED retryVars

\* ------------------------------------------------------------------------
\* Renderer: helpers

\* ------------------------------------------------------------------------
\* Main process: screenshot chat

\* processScreenshots with the path of a screenshot: it becomes the current
\* screenshot and the chat starts empty
ProcessScreenshot(path) ==
    /\ currentScreenshotPath' = path
    /\ chatHistory' = <<>>
    /\ UNCHANGED <<asks, nextAsk>>
    /\ UNCHANGED <<mainVars, rendVars>>
    /\ UNCHANGED retryVars

\* askQuestionAboutCurrentScreenshot up to await askQuestionAboutImage, or its
\* throw when there is no current screenshot
AskQuestion ==
    LET a == nextAsk + 1 IN
    /\ nextAsk < MaxAsks
    /\ nextAsk' = a
    /\ IF currentScreenshotPath = 0
       THEN /\ asks' = (a :> [pc |-> "refused", path |-> 0]) @@ asks
            /\ UNCHANGED chatHistory
       ELSE /\ asks' = (a :> [pc |-> "awaiting", path |-> currentScreenshotPath]) @@ asks
            /\ chatHistory' = Append(chatHistory, [role |-> "user", q |-> a])
    /\ UNCHANGED currentScreenshotPath
    /\ UNCHANGED <<mainVars, rendVars>>
    /\ UNCHANGED retryVars

\* await askQuestionAboutImage settles: the answer is pushed onto the array
\* this.conversationHistory names by then, or the error is logged and rethrown
AskDone(a, ok) ==
    /\ a \in DOMAIN asks
    /\ asks[a].pc = "awaiting"
    /\ asks' = [asks EXCEPT ![a].pc = IF ok THEN "ok" ELSE "error"]
    /\ chatHistory' = IF ok THEN Append(chatHistory, [role |-> "assistant", q |-> a])
                      ELSE chatHistory
    /\ UNCHANGED <<currentScreenshotPath, nextAsk>>
    /\ UNCHANGED <<mainVars, rendVars>>
    /\ UNCHANGED retryVars

\* ProcessingHelper.clearConversation, as ipcMain.handle("clear-conversation") calls it
ClearConversation ==
    /\ chatHistory' = <<>>
    /\ currentScreenshotPath' = 0
    /\ UNCHANGED <<asks, nextAsk>>
    /\ UNCHANGED <<mainVars, rendVars>>
    /\ UNCHANGED retryVars

\* variant: cancelling also empties the listen history
CancelOngoingRequests_ClearsListen ==
    /\ chatHistory' = <<>>
    /\ currentScreenshotPath' = 0
    /\ ClearListen
    /\ UNCHANGED <<asks, nextAsk>>
    /\ UNCHANGED <<nextCall, failed, faulty, irregular>>
    /\ UNCHANGED rendVars
    /\ UNCHANGED retryVars

\* cancelOngoingRequests: the abort controllers are aborted and dropped (no
\* chat or listen call holds one), then clearConversation
CancelOngoingRequests ==
    /\ chatHistory' = <<>>
    /\ currentScreenshotPath' = 0
    /\ UNCHANGED <<asks, nextAsk>>
    /\ UNCHANGED <<mainVars, rendVars>>
    /\ UNCHANGED retryVars

\* a few calls of ipcMain.handle("analyze-audio-conversational") beside the chat
InvokeChat ==
    /\ nextCall < MaxChatCalls
    /\ nextCall' = nextCall + 1
    /\ BeginProcess(nextCall + 1, NewCall(0, "transcribing"), TRUE)
    /\ UNCHANGED irregular
    /\ UNCHANGED rendVars
    /\ UNCHANGED chatVars
    /\ UNCHANGED retryVars

\* ------------------------------------------------------------------------
\* Main process: the retry loops of analyzeAudioFromBase64 and
\* respondToTextWithHistory, run on the same outcomes

\* a loop before its first attempt: let retryCount = 0
NewRun == [retryCount |-> 0, attempts |-> 0, waits |-> <<>>, result |-> "running"]

\* what generateContent may do: answer, fail with a rate-limit-shaped error
\* (message with rate/quota/throttl, or status 429), fail otherwise
Outcomes == {"ok", "rate", "other"}

\* analyzeAudioFromBase64, catch: retryCount <= maxRetries && (rate-limit-shaped)
ShouldRetryAnalyze(retryCount, errKind) == retryCount <= maxRetries /\ errKind = "rate"

\* one iteration of a loop whose catch decides by `retry`: the attempt, and
\* after a failure retryCount++ and either the backoff wait or the throw
LoopStep(run, outcome, retry) ==
    LET rc == run.retryCount + 1 IN
    IF outcome = "ok"
    THEN [run EXCEPT !.attempts = @ + 1, !.result = "success"]
    ELSE IF retry
         THEN [run EXCEPT !.attempts = @ + 1, !.retryCount = rc,
                          !.waits = Append(@, BackoffDelay(rc))]
         ELSE [run EXCEPT !.attempts = @ + 1, !.retryCount = rc, !.result = "error"]

\* analyzeAudioFromBase64: one iteration of while (retryCount <= maxRetries)
AnalyzeStep ==
    LET o == outcomes[analyzeRun.attempts + 1] IN
    /\ analyzeRun.result = "running"
    /\ analyzeRun' = LoopStep(analyzeRun, o, ShouldRetryAnalyze(analyzeRun.retryCount + 1, o))
    /\ UNCHANGED <<outcomes, respondRun>>
    /\ UNCHANGED <<mainVars, rendVars, chatVars>>

\* respondToTextWithHistory: one iteration of while (retryCount <= maxRetries);
\* when the loop ends the function throws
RespondStep ==
    LET o == outcomes[respondRun.attempts + 1] IN
    /\ respondRun.result = "running"
    /\ respondRun' = LoopStep(respondRun, o, ShouldRetry(respondRun.retryCount + 1, o))
    /\ UNCHANGED <<outcomes, analyzeRun>>
    /\ UNCHANGED <<mainVars, rendVars, chatVars>>

\* ------------------------------------------------------------------------
\* Renderer

NoStream == [kind |-> "null", s |-> 0]
NoRecorder == [s |-> 0, kind |-> "null", src |-> 0]

\* variant: the threshold does not depend on the mixer
SPEECH_THRESHOLD_Same == IF mixer # 0 THEN 15 ELSE 15

\* variant: the two thresholds are exchanged
SPEECH_THRESHOLD_Swapped == IF mixer # 0 THEN 15 ELSE 8

\* const currentHasSystemAudio = mixerGainNode.current !== null
\* const SPEECH_THRESHOLD = currentHasSystemAudio ? 8 : 15
SPEECH_THRESHOLD == IF mixer # 0 THEN 8 ELSE 15

\* energies a tick may measure: below both thresholds, between them, above both
Energies == {5, 10, 20}

\* isRecorderRestarting as the timer and interval callbacks read it: the value
\* captured by the closure of the render that created them.  restartAudioCapture
\* sets it and clears it again in one task (audioData is never filled, so its
\* only await is never reached), so no render ever captures true.
isRecorderRestarting == FALSE

\* audioData.current.length (nothing ever pushes to audioData)
audioDataLength == 0

\* audioData.current.length > 0 || recordedBlob.current !== null
hasAudioData == audioDataLength > 0 \/ recordedBlob # NoBlob

\* recAge: 0 is below 2000 ms, 1 is [2000, 3000), 2 is [3000, 4000), 3 is 4000 ms or more
MinSilenceRecording == 1    \* recordingDuration >= 2000
MinRestartRecording == 2    \* recordingDuration >= 3000
MinFallbackRecording_AsSilence == MinSilenceRecording   \* variant: the 2000 ms test
MinFallbackRecording == 3   \* recordingDuration >= 4000

\* A recorder's chunks are numbered in the order of their dataavailable events.
\* Its chunks array holds the chunks lo..hi; flushed is the last chunk of the
\* latest blob of this recorder that processCurrentAudio took, and late the
\* latest chunk delivered while isProcessing.current was set.
NewTape == [lo |-> 1, hi |-> 0, flushed |-> 0, late |-> 0]

\* chunks.push(event.data)
PushChunk(t) == [t EXCEPT !.hi = @ + 1, !.late = IF isProcessing THEN t.hi + 1 ELSE @]

\* variant: the blob is built from the last chunk alone
BlobOf_LastChunk(s, t) == [s |-> s, lo |-> t.hi, hi |-> t.hi]

\* new Blob(chunks, { type: 'audio/webm' }) in the closure of recorder s
BlobOf(s, t) == [s |-> s, lo |-> t.lo, hi |-> t.hi]

\* processCurrentAudio up to reader.readAsDataURL: the guard, the busy flag,
\* and a FileReader started on the blob.  `cause` is the caller and `energy`
\* the average volume of the tick, if the caller is a tick.
ProcessCurrentAudio(cause, energy) ==
    /\ ~isProcessing
    /\ hasAudioData
    /\ nextCall < MaxTurns
    /\ isProcessing' = TRUE
    /\ nextCall' = nextCall + 1
    /\ calls' = ((nextCall + 1) :>
                    [NewCall(session, "reading") EXCEPT
                        !.first = lastTurnSession < session,
                        !.utt = recordedBlob,
                        !.prev = tape[recordedBlob.s].flushed,
                        !.cause = cause,
                        !.energy = energy,
                        !.selected = aiMode])
                 @@ calls
    /\ tape' = [tape EXCEPT ![recordedBlob.s].flushed = recordedBlob.hi]
    /\ lastTurnSession' = session
    /\ UNCHANGED <<listenConversationHistory, failed, faulty, irregular, appended>>
    /\ UNCHANGED <<isAiThinking, recordedBlob>>

\* the clicks explored: a start or stop click that finds n earlier completions
\* still pending spends n of the budget MaxCarried
Carry(n) ==
    /\ irregular + n <= MaxCarried
    /\ irregular' = irregular + n

\* ------------------------------------------------------------------------
\* Renderer: session

\* handleListenClick while not listening: startListening up to await getUserMedia
StartListening ==
    /\ ~isListening
    /\ session < MaxSessions
    /\ isListening' = TRUE
    /\ session' = session + 1
    /\ starts' = ((session + 1) :> "awaitMic") @@ starts
    /\ Carry(Cardinality(DOMAIN starts) + stopsAwaiting + Cardinality(finalChunk)
             + Cardinality(DOMAIN calls) + restartPending)
    /\ UNCHANGED <<stopsAwaiting, hasSystemAudio>>
    /\ UNCHANGED <<listenConversationHistory, calls, nextCall, failed, faulty, appended>>
    /\ UNCHANGED <<resVars, tape, timerVars, vadVars, turnVars>>
    /\ UNCHANGED uiVars
    /\ UNCHANGED chatVars
    /\ UNCHANGED retryVars

\* getUserMedia(micConstraints) resolves; the loopback acquisition is awaited
MicGranted(s) ==
    /\ s \in DOMAIN starts
    /\ starts[s] = "awaitMic"
    /\ starts' = [starts EXCEPT ![s] = "awaitSys"]
    /\ micLive' = micLive \cup {s}
    /\ UNCHANGED <<isListening, session, stopsAwaiting, hasSystemAudio>>
    /\ UNCHANGED <<sysLive, mixLive, audioStream, mixer, systemStream, mediaRecorder,
                   recRunning, finalChunk>>
    /\ UNCHANGED <<mainVars, tape, timerVars, vadVars, turnVars>>
    /\ UNCHANGED uiVars
    /\ UNCHANGED chatVars
    /\ UNCHANGED retryVars

\* variant: the catch shows the alert and leaves isListening as it is
MicDenied_StaysListening(s) ==
    /\ s \in DOMAIN starts
    /\ starts[s] = "awaitMic"
    /\ starts' = [t \in DOMAIN starts \ {s} |-> starts[t]]
    /\ alerted' = alerted \cup {s}
    /\ UNCHANGED <<isListening, session, stopsAwaiting, hasSystemAudio>>
    /\ UNCHANGED <<mainVars, resVars, tape, timerVars, vadVars, turnVars>>
    /\ UNCHANGED <<audioAnalysisResult, conversationHistory, aiMode>>
    /\ UNCHANGED chatVars
    /\ UNCHANGED retryVars

\* getUserMedia(micConstraints) rejects: the catch of startListening
MicDenied(s) ==
    /\ s \in DOMAIN starts
    /\ starts[s] = "awaitMic"
    /\ starts' = [t \in DOMAIN starts \ {s} |-> starts[t]]
    /\ isListening' = FALSE
    /\ UNCHANGED <<session, stopsAwaiting, hasSystemAudio>>
    /\ UNCHANGED <<mainVars, resVars, tape, timerVars, vadVars, turnVars>>
    /\ alerted' = alerted \cup {s}
    /\ UNCHANGED <<audioAnalysisResult, conversationHistory, aiMode>>
    /\ UNCHANGED chatVars
    /\ UNCHANGED retryVars

\* variant: only the virtual-device path calls setHasSystemAudio(true)
ReportsSystemAudio_VirtualOnly(outcome) == outcome = "virtual"

\* setHasSystemAudio(true) at the end of the virtual-device path and of the
\* screen-capture path with an audio track
ReportsSystemAudio(outcome) == outcome \in {"virtual", "screen"}

\* The loopback acquisition settles ("virtual": a virtual device was found and
\* opened; "screen": getDisplayMedia gave an audio track; "none": neither), then
\* startWebAudioRecording, setupSilenceDetection and the rest of startListening
\* run without a further task in between.  In the screen path the stream is a
\* block-scoped const named systemStream, so "systemStream.current = systemStream"
\* leaves the ref of that name as it was.
StartFinish(s, outcome) ==
    LET mixed == outcome \in {"virtual", "screen"}
        mixer1 == IF mixed THEN s ELSE mixer
        recorder == [s |-> s, kind |-> IF mixer1 # 0 THEN "dest" ELSE "mic",
                     src |-> IF mixer1 # 0 THEN mixer1 ELSE s]
    IN
    /\ s \in DOMAIN starts
    /\ starts[s] = "awaitSys"
    /\ starts' = [t \in DOMAIN starts \ {s} |-> starts[t]]
    /\ mixer' = mixer1
    /\ mixLive' = IF mixed THEN mixLive \cup {s} ELSE mixLive
    /\ sysLive' = IF mixed THEN sysLive \cup {s} ELSE sysLive
    /\ systemStream' = IF outcome = "virtual" THEN s ELSE systemStream
    /\ hasSystemAudio' = (ReportsSystemAudio(outcome) \/ hasSystemAudio)
    /\ recAge' = 0
    /\ recRunning' = recRunning \cup {recorder}
    /\ tape' = (s :> NewTape) @@ tape
    /\ mediaRecorder' = recorder
    /\ audioStream' = [kind |-> IF mixed THEN "dest" ELSE "mic", s |-> s]
    /\ restartPending' = restartPending + 1
    /\ restartRef' = TRUE
    /\ volumeCheck' = TRUE
    /\ UNCHANGED <<isListening, session, stopsAwaiting>>
    /\ UNCHANGED <<micLive, finalChunk, speechTimer, isSpeaking, silence>>
    /\ UNCHANGED <<mainVars, turnVars>>
    /\ UNCHANGED uiVars
    /\ UNCHANGED chatVars
    /\ UNCHANGED retryVars

\* stopWebAudioRecording and the rest of stopListening up to
\* await switchAudioMode('normal'); the function tests no flag on entry
StopListeningCall ==
    LET ended == {r \in recRunning :
                    \/ r = mediaRecorder
                    \/ /\ audioStream.kind # "null"
                       /\ r.kind = audioStream.kind
                       /\ r.src = audioStream.s}
    IN
    /\ mediaRecorder' = IF mediaRecorder \in recRunning THEN NoRecorder ELSE mediaRecorder
    /\ recRunning' = recRunning \ ended
    /\ finalChunk' = finalChunk \cup {r.s : r \in ended}
    /\ micLive' = IF audioStream.kind = "mic" THEN micLive \ {audioStream.s} ELSE micLive
    /\ audioStream' = NoStream
    /\ mixLive' = mixLive \ {mixer}
    /\ sysLive' = sysLive \ {systemStream}
    /\ systemStream' = 0
    /\ mixer' = 0
    /\ recordedBlob' = NoBlob
    /\ restartPending' = IF restartRef THEN restartPending - 1 ELSE restartPending
    /\ restartRef' = FALSE
    /\ volumeCheck' = FALSE
    /\ speechTimer' = FALSE
    /\ isProcessing' = FALSE
    /\ isListening' = FALSE
    /\ hasSystemAudio' = FALSE
    /\ stopsAwaiting' = stopsAwaiting + 1
    /\ UNCHANGED <<session, starts>>
    /\ Carry(Cardinality(DOMAIN starts))
    /\ UNCHANGED <<isAiThinking, lastTurnSession>>
    /\ UNCHANGED <<listenConversationHistory, calls, nextCall, failed, faulty, appended>>
    /\ UNCHANGED <<tape, vadVars>>
    /\ UNCHANGED uiVars
    /\ UNCHANGED chatVars
    /\ UNCHANGED retryVars

\* handleListenClick while listening
StopListening ==
    /\ isListening
    /\ StopListeningCall

\* stopListening is called again although the session is already stopped
StopAgain ==
    /\ ~isListening
    /\ stopsAwaiting < MaxStops
    /\ StopListeningCall

\* variant: a rejection of switchAudioMode leaves stopListening
StopFinish_Rethrows(outcome) ==
    /\ stopsAwaiting > 0
    /\ stopsAwaiting' = stopsAwaiting - 1
    /\ outcome \in {"ok", "failed", "threw"}
    /\ IF outcome = "threw"
       THEN UNCHANGED <<listenConversationHistory, appended, calls, conversationHistory>>
       ELSE ClearListen /\ conversationHistory' = <<>>
    /\ UNCHANGED <<nextCall, failed, faulty, irregular>>
    /\ UNCHANGED <<isListening, session, starts, hasSystemAudio>>
    /\ UNCHANGED <<resVars, tape, timerVars, vadVars, turnVars>>
    /\ UNCHANGED <<audioAnalysisResult, aiMode, alerted>>
    /\ UNCHANGED chatVars
    /\ UNCHANGED retryVars

\* await switchAudioMode('normal') settles (success, { success: false }, or a
\* rejection caught by the try block); the listen conversation is cleared
StopFinish(outcome) ==
    /\ stopsAwaiting > 0
    /\ stopsAwaiting' = stopsAwaiting - 1
    /\ outcome \in {"ok", "failed", "threw"}
    /\ ClearListen
    /\ UNCHANGED <<nextCall, failed, faulty, irregular>>
    /\ UNCHANGED <<isListening, session, starts, hasSystemAudio>>
    /\ UNCHANGED <<resVars, tape, timerVars, vadVars, turnVars>>
    /\ conversationHistory' = <<>>
    /\ UNCHANGED <<audioAnalysisResult, aiMode, alerted>>
    /\ UNCHANGED chatVars
    /\ UNCHANGED retryVars

\* ------------------------------------------------------------------------
\* Renderer: recorder, timers, voice activity

RECURSIVE ChunksOf(_)
ChunksOf(S) == IF S = {} THEN 0
               ELSE LET s == CHOOSE x \in S : TRUE
                    IN tape[s].hi + ChunksOf(S \ {s})

\* the dataavailable events with data so far, over all recorders
ChunksSoFar == ChunksOf(DOMAIN tape)

\* recorder.ondataavailable of a running recorder, event.data.size > 0
Chunk(r) ==
    /\ r \in recRunning
    /\ tape' = [tape EXCEPT ![r.s] = PushChunk(@)]
    /\ recordedBlob' = BlobOf(r.s, PushChunk(tape[r.s]))
    /\ UNCHANGED <<isProcessing, isAiThinking, lastTurnSession>>
    /\ UNCHANGED <<mainVars, sessVars, resVars, timerVars, vadVars>>
    /\ UNCHANGED uiVars
    /\ UNCHANGED chatVars
    /\ UNCHANGED retryVars

\* the last dataavailable event of a stopped recorder
FinalChunk(s, nonEmpty) ==
    /\ s \in finalChunk
    /\ finalChunk' = finalChunk \ {s}
    /\ tape' = IF nonEmpty THEN [tape EXCEPT ![s] = PushChunk(@)] ELSE tape
    /\ recordedBlob' = IF nonEmpty THEN BlobOf(s, PushChunk(tape[s])) ELSE recordedBlob
    /\ UNCHANGED <<micLive, sysLive, mixLive, audioStream, mixer, systemStream, mediaRecorder,
                   recRunning>>
    /\ UNCHANGED <<isProcessing, isAiThinking, lastTurnSession>>
    /\ UNCHANGED <<mainVars, sessVars, timerVars, vadVars>>
    /\ UNCHANGED uiVars
    /\ UNCHANGED chatVars
    /\ UNCHANGED retryVars

\* time passes: the silence so far grows
ElapseSilence ==
    /\ silence # "long"
    /\ silence' = IF silence = "cooldown" THEN "short" ELSE "long"
    /\ UNCHANGED <<isSpeaking, recAge>>
    /\ UNCHANGED <<mainVars, sessVars, resVars, tape, timerVars, turnVars>>
    /\ UNCHANGED uiVars
    /\ UNCHANGED chatVars
    /\ UNCHANGED retryVars

\* time passes: the open utterance grows older
ElapseRecording ==
    /\ recAge < MinFallbackRecording
    /\ recAge' = recAge + 1
    /\ UNCHANGED <<isSpeaking, silence>>
    /\ UNCHANGED <<mainVars, sessVars, resVars, tape, timerVars, turnVars>>
    /\ UNCHANGED uiVars
    /\ UNCHANGED chatVars
    /\ UNCHANGED retryVars

\* variant: after a hand-off the marker is set to now, without the cooldown
SilenceAfterFire_Now == "short"

\* silenceStartTime.current = now + 5000
SilenceAfterFire == "cooldown"

\* variant: the tick guard tests the session flag alone
TickIgnored_ListenOnly == ~isListening

\* if (!isListeningRef.current || isAiThinkingRef.current || isRecorderRestarting) return
TickIgnored == ~isListening \/ isAiThinking \/ isRecorderRestarting

\* the volumeCheckInterval callback, past its guard
Tick(energy) ==
    /\ volumeCheck
    /\ ~TickIgnored
    /\ IF energy > SPEECH_THRESHOLD
       THEN /\ isSpeaking' = TRUE
            /\ speechTimer' = (~isSpeaking \/ speechTimer)
            /\ silence' = "short"
            /\ UNCHANGED <<mainVars, tape, turnVars>>
       ELSE LET sil == IF isSpeaking THEN "short" ELSE silence IN
            /\ isSpeaking' = FALSE
            /\ UNCHANGED speechTimer
            /\ IF sil = "long" /\ hasAudioData /\ ~isProcessing
                  /\ recAge >= MinSilenceRecording
               THEN /\ ProcessCurrentAudio("silence", energy)
                    /\ silence' = SilenceAfterFire
               ELSE /\ silence' = sil
                    /\ UNCHANGED <<mainVars, tape, turnVars>>
    /\ UNCHANGED <<restartPending, restartRef, volumeCheck, recAge>>
    /\ UNCHANGED <<sessVars, resVars>>
    /\ UNCHANGED uiVars
    /\ UNCHANGED chatVars
    /\ UNCHANGED retryVars

\* the speechProcessingTimer callback
FallbackFire ==
    /\ speechTimer
    /\ speechTimer' = FALSE
    /\ IF hasAudioData /\ ~isProcessing /\ recAge >= MinFallbackRecording
       THEN ProcessCurrentAudio("fallback", 0)
       ELSE UNCHANGED <<mainVars, tape, turnVars>>
    /\ UNCHANGED <<restartPending, restartRef, volumeCheck>>
    /\ UNCHANGED <<sessVars, resVars, vadVars>>
    /\ UNCHANGED uiVars
    /\ UNCHANGED chatVars
    /\ UNCHANGED retryVars

\* the "Process Now" button, shown while isListening
ManualProcess ==
    /\ isListening
    /\ ProcessCurrentAudio("manual", 0)
    /\ UNCHANGED <<sessVars, resVars, timerVars, vadVars>>
    /\ UNCHANGED uiVars
    /\ UNCHANGED chatVars
    /\ UNCHANGED retryVars

\* the mode button
ToggleMode ==
    /\ aiMode' = IF aiMode = "meeting" THEN "conversation" ELSE "meeting"
    /\ UNCHANGED <<audioAnalysisResult, conversationHistory, alerted>>
    /\ UNCHANGED <<mainVars, sessVars, resVars, tape, timerVars, vadVars, turnVars>>
    /\ UNCHANGED chatVars
    /\ UNCHANGED retryVars

\* variant: the restart tests the restarting flag alone
RestartIgnored_FlagOnly == isRecorderRestarting

\* the timeout callback's if (isListeningRef.current), then
\* if (!isListeningRef.current || isRecorderRestarting) return
RestartIgnored == ~isListening \/ isRecorderRestarting

\* variant: restartAudioCapture also returns at once while a turn is processed
RestartFire_SkipsWhenBusy(named) ==
    LET left == restartPending - 1
        ref1 == IF named THEN FALSE ELSE restartRef
    IN
    /\ IF named THEN restartRef ELSE restartPending > (IF restartRef THEN 1 ELSE 0)
    /\ IF ~RestartIgnored /\ ~isProcessing
       THEN /\ recAge' = 0
            /\ volumeCheck' = (volumeCheck \/ audioStream # NoStream)
            /\ restartPending' = (IF ref1 THEN left - 1 ELSE left) + 1
            /\ restartRef' = TRUE
       ELSE /\ restartPending' = left
            /\ restartRef' = ref1
            /\ UNCHANGED <<recAge, volumeCheck>>
    /\ UNCHANGED <<mainVars, tape, turnVars>>
    /\ UNCHANGED <<speechTimer, isSpeaking, silence>>
    /\ UNCHANGED <<sessVars, resVars>>
    /\ UNCHANGED uiVars
    /\ UNCHANGED chatVars
    /\ UNCHANGED retryVars

\* a restart timeout fires (the one restartTimer.current names, or one whose
\* handle a later startWebAudioRecording overwrote) and, if the session is
\* active, restartAudioCapture runs
RestartFire(named) ==
    LET left == restartPending - 1
        ref1 == IF named THEN FALSE ELSE restartRef
    IN
    /\ IF named THEN restartRef ELSE restartPending > (IF restartRef THEN 1 ELSE 0)
    /\ IF ~RestartIgnored
       THEN /\ IF /\ audioDataLength > 0
                  /\ recAge >= MinRestartRecording
                  /\ ~isProcessing /\ hasAudioData /\ nextCall < MaxTurns
               THEN ProcessCurrentAudio("restart", 0)
               ELSE UNCHANGED <<mainVars, tape, turnVars>>
            /\ recAge' = 0
            /\ volumeCheck' = (volumeCheck \/ audioStream # NoStream)
            /\ restartPending' = (IF ref1 THEN left - 1 ELSE left) + 1
            /\ restartRef' = TRUE
       ELSE /\ restartPending' = left
            /\ restartRef' = ref1
            /\ UNCHANGED <<recAge, volumeCheck>>
            /\ UNCHANGED <<mainVars, tape, turnVars>>
    /\ UNCHANGED <<speechTimer, isSpeaking, silence>>
    /\ UNCHANGED <<sessVars, resVars>>
    /\ UNCHANGED uiVars
    /\ UNCHANGED chatVars
    /\ UNCHANGED retryVars

\* ------------------------------------------------------------------------
\* Renderer: the rest of a chain

\* reader.onload: setIsAiThinking(true), then analyzeAudioConversational is invoked
ReaderOnload(c) ==
    /\ c \in DOMAIN calls
    /\ calls[c].pc = "reading"
    /\ isAiThinking' = TRUE
    /\ BeginProcess(c, calls[c], TRUE)
    /\ UNCHANGED <<nextCall, irregular>>
    /\ UNCHANGED <<isProcessing, recordedBlob, lastTurnSession>>
    /\ UNCHANGED <<sessVars, resVars, tape, timerVars, vadVars>>
    /\ UNCHANGED uiVars
    /\ UNCHANGED chatVars
    /\ UNCHANGED retryVars

\* variant: the cleanup also empties the recorder's chunk list
ChainSettles_DropsChunks(c) ==
    /\ c \in DOMAIN calls
    /\ calls[c].pc \in {"replyOk", "replyEmpty", "replyErr"}
    /\ calls' = [d \in DOMAIN calls \ {c} |-> calls[d]]
    /\ isAiThinking' = FALSE
    /\ isProcessing' = FALSE
    /\ speechTimer' = FALSE
    /\ recordedBlob' = NoBlob
    /\ recAge' = 0
    /\ tape' = [r \in DOMAIN tape |-> [tape[r] EXCEPT !.lo = tape[r].hi + 1]]
    /\ UNCHANGED <<listenConversationHistory, appended, nextCall, failed, faulty, irregular>>
    /\ UNCHANGED <<restartPending, restartRef, volumeCheck, isSpeaking, silence>>
    /\ UNCHANGED <<lastTurnSession, sessVars, resVars>>
    /\ audioAnalysisResult' = IF calls[c].pc = "replyOk" THEN c ELSE audioAnalysisResult
    /\ conversationHistory' = IF calls[c].pc = "replyOk"
                              THEN Append(conversationHistory, c) ELSE conversationHistory
    /\ UNCHANGED <<aiMode, alerted>>
    /\ UNCHANGED chatVars
    /\ UNCHANGED retryVars

\* variant: the cleanup sits at the end of the try block, not in finally
ChainSettles_NoFinally(c) ==
    LET ok == calls[c].pc # "replyErr" IN
    /\ c \in DOMAIN calls
    /\ calls[c].pc \in {"replyOk", "replyEmpty", "replyErr"}
    /\ calls' = [d \in DOMAIN calls \ {c} |-> calls[d]]
    /\ isAiThinking' = (IF ok THEN FALSE ELSE isAiThinking)
    /\ isProcessing' = (IF ok THEN FALSE ELSE isProcessing)
    /\ speechTimer' = (IF ok THEN FALSE ELSE speechTimer)
    /\ recordedBlob' = (IF ok THEN NoBlob ELSE recordedBlob)
    /\ recAge' = (IF ok THEN 0 ELSE recAge)
    /\ UNCHANGED <<listenConversationHistory, appended, nextCall, failed, faulty, irregular>>
    /\ UNCHANGED <<restartPending, restartRef, volumeCheck, isSpeaking, silence>>
    /\ UNCHANGED <<lastTurnSession, sessVars, resVars, tape>>
    /\ audioAnalysisResult' = IF calls[c].pc = "replyOk" THEN c ELSE audioAnalysisResult
    /\ conversationHistory' = IF calls[c].pc = "replyOk"
                              THEN Append(conversationHistory, c) ELSE conversationHistory
    /\ UNCHANGED <<aiMode, alerted>>
    /\ UNCHANGED chatVars
    /\ UNCHANGED retryVars

\* await analyzeAudioConversational settles: the try or catch block, then finally
ChainSettles(c) ==
    /\ c \in DOMAIN calls
    /\ calls[c].pc \in {"replyOk", "replyEmpty", "replyErr"}
    /\ calls' = [d \in DOMAIN calls \ {c} |-> calls[d]]
    /\ isAiThinking' = FALSE
    /\ isProcessing' = FALSE
    /\ speechTimer' = FALSE
    /\ recordedBlob' = NoBlob
    /\ recAge' = 0
    /\ UNCHANGED <<listenConversationHistory, appended, nextCall, failed, faulty, irregular>>
    /\ UNCHANGED <<restartPending, restartRef, volumeCheck, isSpeaking, silence>>
    /\ UNCHANGED <<lastTurnSession, sessVars, resVars, tape>>
    /\ audioAnalysisResult' = IF calls[c].pc = "replyOk" THEN c ELSE audioAnalysisResult
    /\ conversationHistory' = IF calls[c].pc = "replyOk"
                              THEN Append(conversationHistory, c) ELSE conversationHistory
    /\ UNCHANGED <<aiMode, alerted>>
    /\ UNCHANGED chatVars
    /\ UNCHANGED retryVars

\* ------------------------------------------------------------------------
\* Specifications

InitProgram ==
    /\ listenConversationHistory = <<>>
    /\ calls = <<>>
    /\ nextCall = 0
    /\ failed = {}
    /\ faulty = {}
    /\ irregular = 0
    /\ appended = <<>>
    /\ isListening = FALSE
    /\ session = 0
    /\ starts = <<>>
    /\ stopsAwaiting = 0
    /\ hasSystemAudio = FALSE
    /\ micLive = {}
    /\ sysLive = {}
    /\ mixLive = {}
    /\ audioStream = NoStream
    /\ mixer = 0
    /\ systemStream = 0
    /\ mediaRecorder = NoRecorder
    /\ recRunning = {}
    /\ finalChunk = {}
    /\ tape = <<>>
    /\ restartPending = 0
    /\ restartRef = FALSE
    /\ volumeCheck = FALSE
    /\ speechTimer = FALSE
    /\ isSpeaking = FALSE
    /\ silence = "long"
    /\ recAge = MinFallbackRecording
    /\ isProcessing = FALSE
    /\ isAiThinking = FALSE
    /\ recordedBlob = NoBlob
    /\ lastTurnSession = 0
    /\ audioAnalysisResult = 0
    /\ conversationHistory = <<>>
    /\ aiMode = "meeting"
    /\ alerted = {}
    /\ currentScreenshotPath = 0
    /\ chatHistory = <<>>
    /\ asks = <<>>
    /\ nextAsk = 0

\* no LLM call has been made
Init ==
    /\ InitProgram
    /\ outcomes = <<>>
    /\ analyzeRun = NewRun
    /\ respondRun = NewRun

\* both loops are about to start and meet the same outcome, attempt by attempt
InitRetry ==
    /\ InitProgram
    /\ outcomes \in [1..(maxRetries + 1) -> Outcomes]
    /\ analyzeRun = NewRun
    /\ respondRun = NewRun

\* listen sessions started and stopped, turns started by the button
Next ==
    \/ StartListening
    \/ \E s \in DOMAIN starts : MicGranted(s)
    \/ \E s \in DOMAIN starts : MicDenied(s)
    \/ \E s \in DOMAIN starts, o \in {"virtual", "screen", "none"} : StartFinish(s, o)
    \/ StopListening
    \/ \E o \in {"ok", "failed", "threw"} : StopFinish(o)
    \/ \E r \in recRunning : ChunksSoFar < MaxChunks /\ Chunk(r)
    \/ \E s \in finalChunk, b \in BOOLEAN : (b => ChunksSoFar < MaxChunks) /\ FinalChunk(s, b)
    \/ ManualProcess
    \/ \E n \in BOOLEAN : RestartFire(n)
    \/ \E c \in DOMAIN calls : ReaderOnload(c)
    \/ \E c \in DOMAIN calls : TranscribeDone(c)
    \/ \E c \in DOMAIN calls : RespondOk(c)
    \/ \E c \in DOMAIN calls : ChainSettles(c)

Spec == Init /\ [][Next]_vars

\* one listen session that is not stopped, with the voice activity monitor
NextTurn ==
    \/ StartListening
    \/ \E s \in DOMAIN starts : MicGranted(s)
    \/ \E s \in DOMAIN starts, o \in {"virtual", "screen", "none"} : StartFinish(s, o)
    \/ \E r \in recRunning : ChunksSoFar < MaxChunks /\ Chunk(r)
    \/ ElapseSilence
    \/ ElapseRecording
    \/ \E e \in Energies : Tick(e)
    \/ FallbackFire
    \/ ManualProcess
    \/ \E n \in BOOLEAN : RestartFire(n)
    \/ \E c \in DOMAIN calls : ReaderOnload(c)
    \/ \E c \in DOMAIN calls : TranscribeDone(c)
    \/ \E c \in DOMAIN calls : RespondOk(c)
    \/ \E c \in DOMAIN calls : RespondError(c)
    \/ \E c \in DOMAIN calls : BackoffDone(c)
    \/ \E c \in DOMAIN calls : ChainSettles(c)

SpecTurn == Init /\ [][NextTurn]_vars

\* a chain's next step: the FileReader loads, a service call settles, a backoff
\* timeout fires, the IPC reply arrives
ChainStep(c) ==
    \/ ReaderOnload(c)
    \/ TranscribeDone(c)
    \/ RespondOk(c)
    \/ RespondError(c)
    \/ BackoffDone(c)
    \/ ChainSettles(c)

\* SpecTurn where no chain waits for its next step for ever
FairTurn == SpecTurn /\ \A c \in 1..MaxTurns : WF_vars(ChainStep(c))

\* FairTurn where, in addition, every armed timer fires and time passes
FairSpeech ==
    /\ FairTurn
    /\ WF_vars(FallbackFire)
    /\ WF_vars(\E n \in BOOLEAN : RestartFire(n))
    /\ WF_vars(ElapseRecording)

\* one listen session that is not stopped and whose responder answers, with a
\* longer stream of chunks
NextStream ==
    \/ StartListening
    \/ \E s \in DOMAIN starts : MicGranted(s)
    \/ \E s \in DOMAIN starts, o \in {"virtual", "screen", "none"} : StartFinish(s, o)
    \/ \E r \in recRunning : ChunksSoFar < MaxStreamChunks /\ Chunk(r)
    \/ ElapseSilence
    \/ ElapseRecording
    \/ \E e \in Energies : Tick(e)
    \/ FallbackFire
    \/ ManualProcess
    \/ \E n \in BOOLEAN : RestartFire(n)
    \/ \E c \in DOMAIN calls : ReaderOnload(c)
    \/ \E c \in DOMAIN calls : TranscribeDone(c)
    \/ \E c \in DOMAIN calls : RespondOk(c)
    \/ \E c \in DOMAIN calls : ChainSettles(c)

SpecStream == Init /\ [][NextStream]_vars

\* start and stop requests in any order, with the voice activity monitor and a
\* responder that answers
NextMonitor ==
    \/ session < MaxMonitor /\ StartListening
    \/ \E s \in DOMAIN starts : MicGranted(s)
    \/ \E s \in DOMAIN starts : MicDenied(s)
    \/ \E s \in DOMAIN starts, o \in {"virtual", "screen", "none"} : StartFinish(s, o)
    \/ StopListening
    \/ \E o \in {"ok", "failed", "threw"} : StopFinish(o)
    \/ \E r \in recRunning : ChunksSoFar < MaxMonitor /\ Chunk(r)
    \/ ElapseSilence
    \/ ElapseRecording
    \/ \E e \in Energies : (nextCall < MaxMonitor \/ isProcessing \/ ~hasAudioData) /\ Tick(e)
    \/ \E c \in DOMAIN calls : ReaderOnload(c)
    \/ \E c \in DOMAIN calls : TranscribeDone(c)
    \/ \E c \in DOMAIN calls : RespondOk(c)
    \/ \E c \in DOMAIN calls : ChainSettles(c)

SpecMonitor == Init /\ [][NextMonitor]_vars

\* start and stop requests in any order with the restart timer and turns
\* started by hand
NextRestart ==
    \/ session < MaxMonitor /\ StartListening
    \/ \E s \in DOMAIN starts : MicGranted(s)
    \/ \E s \in DOMAIN starts, o \in {"virtual", "screen", "none"} : StartFinish(s, o)
    \/ StopListening
    \/ \E o \in {"ok", "failed", "threw"} : StopFinish(o)
    \/ \E r \in recRunning : ChunksSoFar < MaxMonitor /\ Chunk(r)
    \/ ElapseRecording
    \/ \E n \in BOOLEAN : RestartFire(n)
    \/ nextCall < MaxMonitor /\ ManualProcess
    \/ \E c \in DOMAIN calls : ReaderOnload(c)
    \/ \E c \in DOMAIN calls : TranscribeDone(c)
    \/ \E c \in DOMAIN calls : RespondOk(c)
    \/ \E c \in DOMAIN calls : ChainSettles(c)

SpecRestart == Init /\ [][NextRestart]_vars

\* listen sessions with turns, in which stopListening is also called when the
\* session is already stopped; no session is started while a stop is pending
NextStop ==
    \/ session < MaxSessions /\ stopsAwaiting = 0 /\ StartListening
    \/ \E s \in DOMAIN starts : MicGranted(s)
    \/ \E s \in DOMAIN starts, o \in {"virtual", "screen", "none"} : StartFinish(s, o)
    \/ StopListening
    \/ StopAgain
    \/ \E o \in {"ok", "failed", "threw"} : StopFinish(o)
    \/ \E r \in recRunning : ChunksSoFar < MaxMonitor /\ Chunk(r)
    \/ ManualProcess
    \/ \E c \in DOMAIN calls : ReaderOnload(c)
    \/ \E c \in DOMAIN calls : TranscribeDone(c)
    \/ \E c \in DOMAIN calls : RespondOk(c)
    \/ \E c \in DOMAIN calls : ChainSettles(c)

SpecStop == Init /\ [][NextStop]_vars

\* one listen session with the mode button and turns started by hand
NextMode ==
    \/ session < MaxMonitor /\ StartListening
    \/ \E s \in DOMAIN starts : MicGranted(s)
    \/ \E s \in DOMAIN starts, o \in {"virtual", "screen", "none"} : StartFinish(s, o)
    \/ ToggleMode
    \/ \E r \in recRunning : ChunksSoFar < MaxChunks /\ Chunk(r)
    \/ ManualProcess
    \/ \E c \in DOMAIN calls : ReaderOnload(c)
    \/ \E c \in DOMAIN calls : TranscribeDone(c)
    \/ \E c \in DOMAIN calls : RespondOk(c)
    \/ \E c \in DOMAIN calls : ChainSettles(c)

SpecMode == Init /\ [][NextMode]_vars

\* one listen session that is not stopped, in which every tick measures an
\* energy between the two thresholds
NextFixture ==
    \/ StartListening
    \/ \E s \in DOMAIN starts : MicGranted(s)
    \/ \E s \in DOMAIN starts, o \in {"virtual", "screen", "none"} : StartFinish(s, o)
    \/ \E r \in recRunning : ChunksSoFar < MaxChunks /\ Chunk(r)
    \/ ElapseSilence
    \/ ElapseRecording
    \/ Tick(10)
    \/ FallbackFire
    \/ \E n \in BOOLEAN : RestartFire(n)
    \/ \E c \in DOMAIN calls : ReaderOnload(c)
    \/ \E c \in DOMAIN calls : TranscribeDone(c)
    \/ \E c \in DOMAIN calls : RespondOk(c)
    \/ \E c \in DOMAIN calls : ChainSettles(c)

SpecFixture == Init /\ [][NextFixture]_vars

\* a timeout that is armed fires, and time passes
FairFixture ==
    /\ SpecFixture
    /\ WF_vars(\E n \in BOOLEAN : RestartFire(n))
    /\ WF_vars(ElapseRecording)

\* the screenshot chat and the listen pipeline side by side in the main process
NextChat ==
    \/ \E path \in 1..MaxShots : ProcessScreenshot(path)
    \/ AskQuestion
    \/ \E a \in DOMAIN asks, ok \in BOOLEAN : AskDone(a, ok)
    \/ ClearConversation
    \/ CancelOngoingRequests
    \/ InvokeChat
    \/ InvokeClear
    \/ \E c \in DOMAIN calls : TranscribeDone(c)
    \/ \E c \in DOMAIN calls : RespondOk(c)
    \/ \E c \in DOMAIN calls : Receive(c)

SpecChat == Init /\ [][NextChat]_vars

\* the two retry loops, each at its own pace
NextRetry ==
    \/ AnalyzeStep
    \/ RespondStep

SpecRetry == InitRetry /\ [][NextRetry]_vars

\* the pipeline alone, a few calls with any overlap and any failure
NextPipe ==
    \/ Invoke
    \/ InvokeClear
    \/ \E c \in DOMAIN calls : TranscribeDone(c)
    \/ \E c \in DOMAIN calls : RespondOk(c)
    \/ \E c \in DOMAIN calls : RespondError(c)
    \/ \E c \in DOMAIN calls : BackoffDone(c)
    \/ \E c \in DOMAIN calls : Receive(c)

SpecPipe == Init /\ [][NextPipe]_vars

\* the pipeline alone, enough calls to fill the history past its cap
NextCap ==
    \/ InvokeCap
    \/ InvokeClear
    \/ \E c \in DOMAIN calls : TranscribeDone(c)
    \/ \E c \in DOMAIN calls : RespondOk(c)
    \/ \E c \in DOMAIN calls : RespondError(c)
    \/ \E c \in DOMAIN calls : BackoffDone(c)
    \/ \E c \in DOMAIN calls : Receive(c)

SpecCap == Init /\ [][NextCap]_vars

\* ------------------------------------------------------------------------
\* Properties

\* chains whose transcribe + respond call in the main process has not returned
Outstanding == {c \in DOMAIN calls : calls[c].pc \in {"transcribing", "responding", "backoff"}}

\* C1: single-flight.  Whatever the order of start, chunks, the button, timers,
\* pipeline completions and stop (a stop followed by a new start while a call
\* is outstanding included), at most one transcribe + respond call chain is
\* outstanding at any time.
C1_SingleFlight == Cardinality(Outstanding) <= 1

\* C2: fresh start.  The history that the first turn of a session gives the
\* responder as context holds no turn of an earlier session.
C2_FreshStart ==
    \A c \in DOMAIN calls :
        calls[c].first => \A s \in calls[c].ctxSess : s >= calls[c].session

\* a stopListening call returns and no later session has been started since
StopCompletes ==
    /\ stopsAwaiting' = stopsAwaiting - 1
    /\ stopsAwaiting' = 0
    /\ ~isListening'

\* C3: once stop-listening has completed, the session is inactive, the tick
\* loop, the recorder, the restart timer and the fallback timer are stopped,
\* every acquired stream and audio graph is released, the busy flag is clear
\* and the listen history is empty.
C3_StopReleasesAll ==
    [][StopCompletes =>
          /\ ~volumeCheck'
          /\ recRunning' = {}
          /\ restartPending' = 0
          /\ ~speechTimer'
          /\ micLive' = {} /\ sysLive' = {} /\ mixLive' = {}
          /\ ~isProcessing'
          /\ listenConversationHistory' = <<>>]_vars

\* C4: the listen history never holds more than 24 entries.
C4_HistoryBounded == Len(listenConversationHistory) <= HistoryCap

\* a completed turn has just been pushed onto a full history and cut back
C4_Truncated ==
    /\ Len(appended) > HistoryCap
    /\ Len(listenConversationHistory) = HistoryCap

\* C5: once more than 24 entries have been appended to an empty history, the
\* history is exactly the last 24 of them, oldest first.
C5_KeepsNewest ==
    Len(appended) > HistoryCap =>
        listenConversationHistory = LastN(appended, HistoryCap)

\* entries have been dropped and the oldest entry kept is not the first appended
C5_OldestDropped ==
    /\ Len(appended) >= HistoryCap + 2
    /\ Len(listenConversationHistory) = HistoryCap
    /\ listenConversationHistory[1] = appended[Len(appended) - HistoryCap + 1]
    /\ listenConversationHistory[1] # appended[1]

\* the utterances that have entries in the listen history
UtterancesIn(h) == {h[i].utt : i \in 1..Len(h)}

\* C6: when the transcriber returns an empty or whitespace-only text, process
\* returns an empty result, the responder is not invoked for the utterance,
\* and the step leaves the listen history as it was.
C6_EmptyShortCircuit ==
    /\ [](\A c \in DOMAIN calls :
            calls[c].heard = "blank" =>
                /\ calls[c].pc = "replyEmpty"
                /\ calls[c].attempts = 0
                /\ c \notin UtterancesIn(appended))
    /\ [][\A c \in DOMAIN calls :
            (c \in DOMAIN calls' /\ calls[c].heard = "none" /\ calls'[c].heard = "blank")
                => listenConversationHistory' = listenConversationHistory]_vars

\* a whitespace-only transcript was short-circuited while the history held a turn
C6_BlankHeard ==
    \E c \in DOMAIN calls :
        /\ calls[c].heard = "blank"
        /\ calls[c].pc = "replyEmpty"
        /\ listenConversationHistory # <<>>

\* C7: a turn whose transcriber or responder call failed leaves nothing of its
\* utterance in the listen history, and when its failure reaches the renderer
\* the session is still active with its monitor running, and the busy and
\* thinking flags are clear.
C7_FailedTurn ==
    /\ [](\A u \in failed :
            /\ u \notin UtterancesIn(listenConversationHistory)
            /\ u \notin UtterancesIn(appended))
    /\ [][\A c \in DOMAIN calls :
            (calls[c].pc = "replyErr" /\ c \notin DOMAIN calls')
                => /\ isListening' /\ volumeCheck'
                   /\ ~isProcessing' /\ ~isAiThinking']_vars

\* the responder has failed on every attempt of a turn that follows a completed one
C7_ResponderFailed ==
    \E c \in DOMAIN calls :
        /\ calls[c].pc = "replyErr"
        /\ calls[c].attempts > 0
        /\ c \in failed
        /\ listenConversationHistory # <<>>

\* C8: every turn that enters processing leaves it, and at that step the busy
\* flag and the thinking flag are clear, the pending buffer is empty and the
\* recording start is now, whatever the outcome.
C8_TurnLeaves ==
    /\ \A c \in 1..MaxTurns : (c \in DOMAIN calls) ~> (c \notin DOMAIN calls)
    /\ [][\A c \in DOMAIN calls :
            c \notin DOMAIN calls'
                => /\ ~isProcessing' /\ ~isAiThinking'
                   /\ recordedBlob' = NoBlob /\ recAge' = 0]_vars

\* a turn failed and left, and the next turn has entered processing
C8_NextTurnAfterFailure ==
    /\ 1 \in failed
    /\ 1 \notin DOMAIN calls
    /\ 2 \in DOMAIN calls
    /\ isProcessing

\* C9: a responder failure that is not rate-limit-shaped is not retried: the
\* error goes to the caller, with no backoff wait and no further invocation.
C9_OtherErrorNotRetried ==
    \A c \in DOMAIN calls :
        calls[c].lastErr = "other" =>
            /\ calls[c].pc = "replyErr"
            /\ calls[c].waits = <<>>
            /\ calls[c].attempts = 1

\* C10: when the responder fails rate-limit-shaped twice and then succeeds, the
\* call has waited 2 s then 4 s, has invoked the responder three times, and
\* its return adds one user entry and one assistant entry to the history.
C10_RateLimitRetry ==
    [][\A c \in DOMAIN calls :
          (/\ c \in DOMAIN calls'
           /\ calls[c].pc = "responding" /\ calls'[c].pc = "replyOk"
           /\ calls[c].retryCount = 2 /\ calls[c].allRate)
              => /\ calls[c].waits = <<2000, 4000>>
                 /\ calls[c].attempts = 3
                 /\ listenConversationHistory' = listenConversationHistory \o
                        << [role |-> "user", utt |-> c, sess |-> calls[c].session],
                           [role |-> "assistant", utt |-> c, sess |-> calls[c].session] >>]_vars

\* a call has returned a reply after two rate-limit-shaped failures
C10_SucceededOnThird ==
    \E c \in DOMAIN calls :
        /\ calls[c].pc = "replyOk"
        /\ calls[c].retryCount = 2
        /\ calls[c].allRate
        /\ Len(listenConversationHistory) >= 2

\* ------------------------------------------------------------------------
\* The retry loop

\* C11: the responder is invoked at most four times per call (three retries),
\* the waits so far are the first ones of 2 s, 4 s, 8 s, a call whose every
\* attempt failed rate-limit-shaped ends with an error after exactly those
\* three waits and none after the fourth failure, and a call whose services
\* always answer reaches its return.
C11_RetryBounded ==
    /\ [](\A c \in DOMAIN calls :
            /\ calls[c].attempts <= maxRetries + 1
            /\ Len(calls[c].waits) <= maxRetries
            /\ \A i \in 1..Len(calls[c].waits) :
                   calls[c].waits[i] = <<2000, 4000, 8000>>[i]
            /\ calls[c].pc = "backoff" => Len(calls[c].waits) = calls[c].attempts
            /\ (calls[c].pc = "replyErr" /\ calls[c].lastErr = "rate" /\ calls[c].allRate)
                   => /\ calls[c].attempts = maxRetries + 1
                      /\ calls[c].waits = <<2000, 4000, 8000>>
                      /\ c \in failed)
    /\ \A c \in 1..MaxTurns :
          (c \in DOMAIN calls /\ calls[c].pc \in {"transcribing", "responding", "backoff"})
              ~> (c \in DOMAIN calls /\ calls[c].pc \in {"replyOk", "replyEmpty", "replyErr"})

\* a call gave up after four rate-limit-shaped failures
C11_GaveUp ==
    \E c \in DOMAIN calls :
        /\ calls[c].pc = "replyErr"
        /\ calls[c].allRate
        /\ calls[c].attempts = 4
        /\ calls[c].waits = <<2000, 4000, 8000>>

\* ------------------------------------------------------------------------
\* Turn segmentation

\* a step in which the silence branch of the volume check hands off a turn
SilenceFired == \E c \in DOMAIN calls' \ DOMAIN calls : calls'[c].cause = "silence"

\* C12: a silence hand-off never happens while the silence marker lies in the
\* future, it moves the marker into the future, and the marker leaves the
\* future only by time passing or by a tick above the threshold, so one
\* uninterrupted silence is handed off once and not again within the cooldown.
C12_OncePerSilence ==
    [][/\ SilenceFired => (silence # "cooldown" /\ silence' = "cooldown")
       /\ (silence = "cooldown" /\ silence' # "cooldown")
              => /\ silence' = "short"
                 /\ ~SilenceFired
                 /\ isSpeaking' \/ UNCHANGED <<mainVars, turnVars, isSpeaking>>]_vars

\* a silence hand-off has just happened while a turn was already completed
\* in the same session: the marker lies in the future
C12_InCooldown ==
    /\ silence = "cooldown"
    /\ ~isSpeaking
    /\ nextCall = 2
    /\ \E c \in DOMAIN calls : calls[c].cause = "silence" /\ calls[c].pc = "reading"

\* C13: a silence hand-off happens only on a tick whose energy is at or below
\* the threshold (8 with a mixer, 15 without), when 2500 ms have passed since
\* the silence marker, audio is pending, the open utterance is 2000 ms old and
\* no processing is in flight.
C13_SilenceGuard ==
    [][\A c \in DOMAIN calls' \ DOMAIN calls :
          calls'[c].cause = "silence"
              => /\ calls'[c].energy <= (IF mixer # 0 THEN 8 ELSE 15)
                 /\ silence = "long" /\ ~isSpeaking
                 /\ recordedBlob # NoBlob
                 /\ recAge >= 1
                 /\ ~isProcessing
                 /\ isProcessing' /\ calls'[c].utt = recordedBlob]_vars

\* a silence hand-off on a tick between the two thresholds, without a mixer
C13_QuietHandOff ==
    \E c \in DOMAIN calls :
        /\ calls[c].cause = "silence"
        /\ calls[c].energy = 10
        /\ mixer = 0

\* C14: while the session is active and speech goes on without a pause, audio
\* that is pending after a completed turn is handed to the pipeline (or the
\* speech pauses, or the session ends).
C14_ContinuousSpeechCovered ==
    (/\ isListening /\ isSpeaking
     /\ nextCall >= 1 /\ nextCall < MaxTurns
     /\ calls = <<>> /\ ~isProcessing
     /\ recordedBlob # NoBlob)
        ~> (isProcessing \/ ~isSpeaking \/ ~isListening)

\* a step in which restartAudioCapture ran on an utterance of 3000 ms or more
RestartRan ==
    /\ recAge >= MinRestartRecording /\ recAge' = 0
    /\ starts' = starts
    /\ DOMAIN calls \subseteq DOMAIN calls'

\* C15: when the restart runs while audio is pending, the open utterance has
\* the minimum duration and no processing is in flight, the pending audio is
\* handed to the pipeline.
C15_RestartFlushes ==
    [][(/\ RestartRan
        /\ isListening /\ hasAudioData /\ ~isProcessing
        /\ nextCall < MaxTurns)
           => /\ isProcessing'
              /\ \E c \in DOMAIN calls' \ DOMAIN calls : calls'[c].utt = recordedBlob]_vars

\* ------------------------------------------------------------------------
\* The recorder's chunks

\* C16: an utterance handed to the pipeline starts after the last chunk of the
\* previous utterance of its recorder, so no chunk is in two utterances.
C16_NoChunkTwice ==
    \A c \in DOMAIN calls :
        calls[c].utt # NoBlob => calls[c].utt.lo > calls[c].prev

\* the chunks a recorder's ondataavailable closure retains
Held(t) == t.hi - t.lo + 1

\* C17: while no turn is in flight, a recorder retains no more chunks than it
\* received since the last hand-off (which is at least what it received
\* since the last hand-off or restart).
C17_BufferBounded ==
    (calls = <<>> /\ ~isProcessing)
        => \A s \in DOMAIN tape : Held(tape[s]) <= tape[s].hi - tape[s].flushed

C19_LateChunksKept ==
    [][/\ \A s \in DOMAIN tape :
              /\ tape'[s].lo = tape[s].lo /\ tape'[s].hi >= tape[s].hi
              /\ tape'[s].late # tape[s].late
                     => (isProcessing /\ tape'[s].late = tape'[s].hi
                            /\ tape'[s].hi = tape[s].hi + 1)
       /\ \A c \in DOMAIN calls' \ DOMAIN calls :
              LET u == calls'[c].utt IN
              (u # NoBlob /\ tape[u.s].late > calls'[c].prev)
                  => (u.lo <= tape[u.s].late /\ tape[u.s].late <= u.hi)]_vars

\* an utterance in flight contains a chunk that arrived while the previous
\* turn was being processed
C19_LateChunkHandedOff ==
    \E c \in DOMAIN calls :
        LET u == calls[c].utt IN
        /\ u # NoBlob
        /\ calls[c].prev >= 1
        /\ tape[u.s].late > calls[c].prev
        /\ tape[u.s].late <= u.hi
        /\ tape[u.s].late = calls[c].prev + 1

\* C20: while the session is idle nothing is pending, and an utterance handed
\* off in a session was recorded by that session's recorder.
C20_IdleChunkDiscarded ==
    /\ ~isListening => recordedBlob = NoBlob
    /\ \A c \in DOMAIN calls :
          calls[c].utt # NoBlob => calls[c].utt.s = calls[c].session

\* ------------------------------------------------------------------------
\* The monitor's guard

\* C21: a step that changes the speech state, arms the fallback timer or hands
\* off a turn for silence is taken only while the tick loop runs, the session
\* is active and no response is being generated.
C21_TicksIgnored ==
    [][(\/ isSpeaking' # isSpeaking
        \/ speechTimer' /\ ~speechTimer
        \/ SilenceFired)
           => (volumeCheck /\ isListening /\ ~isAiThinking /\ ~isRecorderRestarting)]_vars

\* the tick loop runs while the session is inactive
C21_LoopWhileInactive ==
    /\ volumeCheck
    /\ ~isListening
    /\ recRunning # {}

\* ------------------------------------------------------------------------
\* The fallback timer

\* a step in which the fallback timer's callback hands off a turn
FallbackFired == \E c \in DOMAIN calls' \ DOMAIN calls : calls'[c].cause = "fallback"

C23_ThresholdLower ==
    /\ [](/\ hasSystemAudio <=> mixer # 0
          /\ SPEECH_THRESHOLD = (IF hasSystemAudio THEN 8 ELSE 15))
    /\ [][/\ (~isSpeaking /\ isSpeaking') => hasSystemAudio
          /\ hasSystemAudio => ~SilenceFired
          /\ hasSystemAudio => (isSpeaking => isSpeaking')
          /\ ~hasSystemAudio' => ~isSpeaking']_vars

\* a tick of energy 10 has moved a session with system audio to speaking
C23_SpeakingAtTen ==
    /\ hasSystemAudio
    /\ isSpeaking
    /\ speechTimer

\* C24: a reply that arrives for a session that has been stopped is neither
\* appended to the displayed conversation nor set as the current answer.
C24_LateResultNotShown ==
    [][\A c \in DOMAIN calls :
          (/\ calls[c].pc = "replyOk"
           /\ c \notin DOMAIN calls'
           /\ (~isListening \/ calls[c].session # session))
          => /\ conversationHistory' = conversationHistory
             /\ audioAnalysisResult' = audioAnalysisResult]_vars

\* C25: stop-listening called twice in a row: each call leaves the session
\* inactive when it reaches its await, and inactive with the displayed
\* conversation and the listen history empty when it returns; a rejected
\* switchAudioMode does not keep a call from returning normally.
C25_StopIdempotent ==
    [][/\ stopsAwaiting' > stopsAwaiting => ~isListening' /\ ~volumeCheck' /\ ~isProcessing'
       /\ stopsAwaiting' < stopsAwaiting =>
             /\ ~isListening'
             /\ listenConversationHistory' = <<>>
             /\ conversationHistory' = <<>>]_vars

\* a second stopListening call is awaiting switchAudioMode together with the
\* first one, after a session that recorded and completed a turn
C25_SecondStopPending ==
    /\ stopsAwaiting = 2
    /\ ~isListening
    /\ DOMAIN tape # {}
    /\ listenConversationHistory # <<>>

\* C26: the pipeline rejects overlap: no process call starts to transcribe
\* while another call chain is still outstanding in the pipeline.
C26_PipelineRejectsOverlap ==
    [][\A c \in DOMAIN calls' :
          (/\ calls'[c].pc = "transcribing"
           /\ (c \notin DOMAIN calls \/ calls[c].pc = "reading"))
          => Outstanding = {}]_vars

\* C27: the responder is invoked with the mode that is selected when the turn
\* is processed.
C27_ResponderGetsMode ==
    \A c \in DOMAIN calls :
        calls[c].pc = "responding" => calls[c].mode = calls[c].selected

\* C28: for every interleaving of start and stop requests with the
\* asynchronous steps of start, at most one recorder is running (and so at
\* most one utterance is accumulating).
C28_OneRecorder == Cardinality(recRunning) <= 1

\* C29: when microphone access is refused, the start ends with the session
\* inactive and the failure shown; it starts no recorder, tick loop or restart
\* timer (none is running after a refused first start), and the refused
\* session never records.
C29_MicRefused ==
    /\ [](\A s \in alerted : s \notin DOMAIN tape /\ s \notin micLive
                             /\ \A r \in recRunning : r.s # s)
    /\ [][\A s \in alerted' \ alerted :
             /\ ~isListening'
             /\ s \notin DOMAIN starts'
             /\ recRunning' = recRunning
             /\ volumeCheck' = volumeCheck
             /\ restartPending' = restartPending
             /\ session = 1 => (recRunning' = {} /\ ~volumeCheck' /\ restartPending' = 0)]_vars

\* the first start was refused the microphone while the session was shown as
\* listening
C29_RefusedFirstStart ==
    /\ alerted = {1}
    /\ session = 1
    /\ ~isListening
    /\ stopsAwaiting = 0
    /\ recRunning = {}

\* C30: a session always starts, whatever the loopback acquisition gave: it
\* records the mixed stream, reports hasSystemAudio and uses the lower
\* threshold exactly when the virtual-device or the screen-capture path gave a
\* system stream, and otherwise records the raw microphone stream with
\* hasSystemAudio false.
C30_LoopbackDecides ==
    /\ [](mediaRecorder # NoRecorder =>
            /\ hasSystemAudio <=> mediaRecorder.s \in sysLive
            /\ hasSystemAudio <=> mediaRecorder.kind = "dest"
            /\ hasSystemAudio <=> SPEECH_THRESHOLD = 8
            /\ mediaRecorder.s \in micLive
            /\ ~hasSystemAudio => /\ mediaRecorder.kind = "mic"
                                  /\ mediaRecorder.src \in micLive
                                  /\ mediaRecorder.s \notin mixLive)
    /\ [][\A s \in DOMAIN starts \ DOMAIN starts' :
             starts[s] = "awaitSys" =>
                /\ isListening'
                /\ mediaRecorder' \in recRunning' /\ mediaRecorder'.s = s
                /\ volumeCheck']_vars

\* the screen-capture path gave the system stream: the session records the
\* mixed stream and reports system audio, and no virtual device was opened
C30_ScreenPathMixed ==
    /\ hasSystemAudio
    /\ systemStream = 0
    /\ mediaRecorder \in recRunning
    /\ mediaRecorder.kind = "dest"

\* ------------------------------------------------------------------------
\* Screenshot chat

\* C31: the screenshot chat and the listen pipeline are independent: a step of
\* askQuestion, clearConversation, cancelOngoingRequests or of processing a
\* screenshot leaves the listen history unchanged, and a step of a listen turn
\* or of clearListenConversation leaves the chat history and the current
\* screenshot unchanged.
C31_HistoriesIndependent ==
    [][/\ chatVars' # chatVars => UNCHANGED <<listenConversationHistory, appended>>
       /\ mainVars' # mainVars => UNCHANGED <<chatHistory, currentScreenshotPath>>]_vars

\* the chat was cleared after an answered question while the listen history
\* kept its turn
C31_ChatClearedListenKept ==
    /\ \E a \in DOMAIN asks : asks[a].pc = "ok"
    /\ chatHistory = <<>>
    /\ currentScreenshotPath = 0
    /\ listenConversationHistory # <<>>

\* ------------------------------------------------------------------------
\* Capture and restart

\* C32: no capture without an active session: once every start and stop
\* request has completed and the session is inactive, no recorder and no tick
\* loop is running and no microphone or system-audio stream is open.
C32_NoCaptureWhenIdle ==
    (~isListening /\ DOMAIN starts = {} /\ stopsAwaiting = 0)
        => /\ recRunning = {}
           /\ ~volumeCheck
           /\ micLive = {}
           /\ sysLive = {}

\* a step in which restartAudioCapture ran through
RestartCompleted ==
    /\ recAge > 0 /\ recAge' = 0
    /\ starts' = starts
    /\ DOMAIN calls \subseteq DOMAIN calls'

\* C33: when a restart completes, no audio from before the restart is pending,
\* the recording-start timestamp is the restart time, the tick loop is running
\* and the next restart is scheduled.
C33_RestartPostCondition ==
    [][RestartCompleted =>
          /\ ~hasAudioData'
          /\ \A s \in DOMAIN tape' : Held(tape'[s]) = 0
          /\ recAge' = 0
          /\ volumeCheck'
          /\ restartRef' /\ restartPending' >= 1]_vars

C35_RestartGuarded ==
    [][/\ (~isListening /\ restartPending' < restartPending) =>
             /\ restartPending' = restartPending - 1
             /\ UNCHANGED <<recAge, tape, recordedBlob, calls, nextCall,
                            volumeCheck, isProcessing>>
       /\ RestartCompleted => isListening]_vars

\* a restart timeout has fired in a stopped session whose recorder had started
\* after the stop: no timeout is armed any more and the utterance has aged
C35_IgnoredWhileInactive ==
    /\ ~isListening
    /\ recRunning # {}
    /\ restartPending = 0 /\ ~restartRef
    /\ recAge > 0

\* ------------------------------------------------------------------------
\* The two retry loops

\* C36: for every sequence of call outcomes the two LLM call sites make the
\* same number of attempts, wait the same backoff delays and end in the same
\* kind of result.
C36_SameRetryPolicy ==
    (analyzeRun.result # "running" /\ respondRun.result # "running")
        => /\ analyzeRun.attempts = respondRun.attempts
           /\ analyzeRun.waits = respondRun.waits
           /\ analyzeRun.result = respondRun.result

\* ------------------------------------------------------------------------
\* Shape of the listen history

\* C37: the listen history consists of complete exchanges: its length is even
\* and its entries alternate user, assistant, starting with a user entry, each
\* assistant entry answering the user entry before it.
C37_CompleteExchanges ==
    /\ Len(listenConversationHistory) % 2 = 0
    /\ \A i \in 1..Len(listenConversationHistory) :
          /\ listenConversationHistory[i].role = (IF i % 2 = 1 THEN "user" ELSE "assistant")
          /\ i % 2 = 0 =>
                listenConversationHistory[i].utt = listenConversationHistory[i - 1].utt

\* the history has been cut to its cap and starts with the user entry of a
\* later turn than the first
C37_CutAtExchange ==
    /\ Len(listenConversationHistory) = HistoryCap
    /\ listenConversationHistory[1].role = "user"
    /\ listenConversationHistory[1].utt > 1

\* ------------------------------------------------------------------------
\* Turns across sessions

\* C38: when the completion of a turn started in an earlier session runs after
\* a later session has been started, it leaves the busy flag, the pending
\* audio, the recording start and the fallback timer as they are.
C38_OldTurnLeavesNewSession ==
    [][\A c \in DOMAIN calls \ DOMAIN calls' :
          (isListening /\ calls[c].session < session)
             => UNCHANGED <<isProcessing, recordedBlob, recAge, speechTimer>>]_vars

\* ------------------------------------------------------------------------
\* Screenshot chat: shape of its history

\* C39: if no screenshot is current, the screenshot-chat history is empty.
C39_NoScreenshotNoChat == currentScreenshotPath = 0 => chatHistory = <<>>

\* C40: an askQuestion call that ended in an error has left no entry in the
\* screenshot-chat history, and the history grows only by a complete
\* question/answer pair.
C40_FailedAskLeavesNoEntry ==
    /\ \A a \in DOMAIN asks :
          asks[a].pc \in {"error", "refused"}
             => \A i \in 1..Len(chatHistory) : chatHistory[i].q # a
    /\ \A a \in DOMAIN asks :
          asks[a].pc = "ok"
             => \A i \in 1..Len(chatHistory) :
                   (chatHistory[i].q = a /\ chatHistory[i].role = "assistant")
                      => (i > 1 /\ chatHistory[i - 1] = [role |-> "user", q |-> a])

====
